---- MODULE Spec2Model ----
(***************************************************************************)
(* Model of the bundle engine of wolfictl, pkg/internal/bundle/bundle.go:  *)
(*   ParseGCSFuseMount  the mount spec parser                              *)
(*   New                the image composer                                 *)
(*   Pull               the bundle decoder                                 *)
(*   Podspec            the pod spec builder                               *)
(* Each operation is its own state machine over its own variables; the     *)
(* variables of the operations that are not running keep their idle value. *)
(* Strings the code inspects character by character (mount specs, CPU and  *)
(* memory quantities) are sequences of one-character strings.              *)
(***************************************************************************)
EXTENDS Integers, Sequences, FiniteSets, TLC

VARIABLES
    nBase,      \* New: the base index: [ok, manifests]
    nEntry,     \* New: entrypoints, a function from architectures to entrypoints
    nFs,        \* New: which of the two file trees cannot be archived, if any
    nTodo,      \* New: the architectures of wantArchs not yet visited by the loop
    nIdx,       \* New: idx, the index built so far (a sequence of manifests)
    nRes,       \* New: what New returned
    nPrev,      \* New: what the caller's earlier call with the same arguments returned
    nPc,        \* New: "start", "loop", "done" ("idle" when New is not running)
    pIn,        \* Pull: the reference and what the registry serves for it
    pI,         \* Pull: position of the loop over im.Manifests
    pBundle,    \* Pull: bundles, the value being filled in
    pRes,       \* Pull: what Pull returned
    pPc,        \* Pull: "start", "loop", "done" ("idle" when Pull is not running)
    kIn,        \* Podspec: task.Resources, arch and mFamily
    kRes,       \* Podspec: what Podspec returned
    kPc,        \* Podspec: "start", "done" ("idle" when Podspec is not running)
    gIn,        \* ParseGCSFuseMount: s
    gRes,       \* ParseGCSFuseMount: what it returned
    gPc         \* ParseGCSFuseMount: "start", "done" ("idle" when not running)

newVars  == <<nBase, nEntry, nFs, nTodo, nIdx, nRes, nPrev, nPc>>
pullVars == <<pIn, pI, pBundle, pRes, pPc>>
podVars  == <<kIn, kRes, kPc>>
gcsVars  == <<gIn, gRes, gPc>>
vars     == <<nBase, nEntry, nFs, nTodo, nIdx, nRes, nPrev, nPc,
              pIn, pI, pBundle, pRes, pPc, kIn, kRes, kPc, gIn, gRes, gPc>>

\* Bounds of the model.
MaxBase      == 2   \* manifests in the base index given to New
MaxLayers    == 1   \* layers of a base image
MaxManifests == 3   \* manifests in the index Pull fetches
MaxCPULen    == 3   \* characters of a CPU override
MaxSpecLen   == 6   \* characters of a mount spec

SeqsUpTo(S, n) == UNION {[1..k -> S] : k \in 0..n}

\* The first position of character c in sequence s, 0 when there is none.
IndexOf(s, c) ==
    IF \E i \in 1..Len(s) : s[i] = c
    THEN CHOOSE i \in 1..Len(s) : s[i] = c /\ \A j \in 1..(i - 1) : s[j] # c
    ELSE 0

\* Cut as it would be with strings.LastIndex: at the last sep.
CutLast(s, sep) ==
    IF \E i \in 1..Len(s) : s[i] = sep
    THEN LET i == CHOOSE k \in 1..Len(s) : s[k] = sep /\ \A j \in (k + 1)..Len(s) : s[j] # sep
         IN  [before |-> SubSeq(s, 1, i - 1), after |-> SubSeq(s, i + 1, Len(s)), found |-> TRUE]
    ELSE [before |-> s, after |-> <<>>, found |-> FALSE]

\* strings.Cut(s, sep) for a one-character sep.
Cut(s, sep) ==
    LET i == IndexOf(s, sep) IN
    IF i = 0
    THEN [before |-> s, after |-> <<>>, found |-> FALSE]
    ELSE [before |-> SubSeq(s, 1, i - 1), after |-> SubSeq(s, i + 1, Len(s)), found |-> TRUE]

(***************************************************************************)
(* ParseGCSFuseMount                                                       *)
(***************************************************************************)
SpecChars == {"b", "d", "m", "/", ":"}

NoMount == [Bucket |-> <<>>, Mount |-> <<>>, OnlyDir |-> <<>>]

ParseGCSFuseMount(s) ==
    LET c1 == Cut(s, ":")
        c2 == Cut(c1.before, "/")
    IN  IF ~c1.found
        THEN [ok |-> FALSE, err |-> "format", mount |-> NoMount]
        ELSE [ok |-> TRUE, err |-> "",
              mount |-> [Bucket |-> c2.before, Mount |-> c1.after, OnlyDir |-> c2.after]]

GcsIdle == gIn = <<>> /\ gRes = [ok |-> FALSE, err |-> "", mount |-> NoMount] /\ gPc = "idle"

InitGCS ==
    /\ gIn \in SeqsUpTo(SpecChars, MaxSpecLen)
    /\ gRes = [ok |-> FALSE, err |-> "", mount |-> NoMount]
    /\ gPc = "start"

GcsParse ==
    /\ gPc = "start"
    /\ gRes' = ParseGCSFuseMount(gIn)
    /\ gPc' = "done"
    /\ UNCHANGED <<gIn, newVars, pullVars, podVars>>

(***************************************************************************)
(* New                                                                     *)
(***************************************************************************)
\* types.ParseArchitecture: the aliases of an architecture map to its Go name.
ParseArchitecture(s) ==
    CASE s \in {"386", "i386", "x86"}   -> "386"
      [] s \in {"amd64", "x86_64"}      -> "amd64"
      [] s \in {"arm64", "aarch64"}     -> "arm64"
      [] s \in {"arm/v6", "armhf"}      -> "arm/v6"
      [] s \in {"arm/v7", "armv7"}      -> "arm/v7"
      [] OTHER                          -> s

\* desc.Platform is a pointer: an index manifest may carry none.
NoPlatform == [present |-> FALSE, Architecture |-> "", OS |-> ""]

BasePlatforms ==
    { NoPlatform,
      [present |-> TRUE, Architecture |-> "amd64",   OS |-> "linux"],
      [present |-> TRUE, Architecture |-> "aarch64", OS |-> "linux"],
      [present |-> TRUE, Architecture |-> "arm64",   OS |-> "freebsd"] }

\* A descriptor of the base index: its platform, whether base.Image(desc.Digest)
\* succeeds, and how many layers that image has.
BaseDescs ==
    {[Platform |-> p, imageOk |-> TRUE, nlayers |-> n] : p \in BasePlatforms, n \in 0..MaxLayers}
    \cup {[Platform |-> p, imageOk |-> FALSE, nlayers |-> 0] : p \in BasePlatforms}

\* The keys an entrypoints map may have: types.Architecture values, which
\* types.ParseArchitecture makes (so none is an alias).
KeyArchs == {"amd64", "arm64", "riscv64"}

\* An entrypoint is a pointer: "nil", or "ep" for a value the template renders.
EntrypointMaps == UNION {[S -> {"nil", "ep"}] : S \in SUBSET KeyArchs}

Layer(kind, img, n) == [kind |-> kind, img |-> img, n |-> n]

CommonLayer     == Layer("common", 0, 0)
SourceLayer     == Layer("source", 0, 0)
EntrypointLayer == Layer("entrypoint", 0, 0)

\* mutate.MediaType(empty.Image, ...): no layers, zero config.
EmptyImage ==
    [layers |-> <<>>,
     config |-> [Entrypoint |-> <<>>, WorkingDir |-> "", Env |-> <<>>]]

\* base.Image(desc.Digest) for the j-th descriptor of the base index.
BaseImage(j, desc) ==
    [layers |-> [i \in 1..desc.nlayers |-> Layer("base", j, i)],
     config |-> [Entrypoint |-> <<"/base">>, WorkingDir |-> "/work", Env |-> <<"BASE=1">>]]

\* wantArchs: the keys of entrypoints.
WantArchs(entrypoints) == DOMAIN entrypoints

\* haveArchs: normalized architecture -> position of the descriptor kept for it
\* (a later descriptor of the same architecture overwrites an earlier one).
HaveArchs(manifests) ==
    [a \in {ParseArchitecture(manifests[i].Platform.Architecture) : i \in 1..Len(manifests)} |->
        CHOOSE i \in 1..Len(manifests) :
            /\ ParseArchitecture(manifests[i].Platform.Architecture) = a
            /\ \A j \in (i + 1)..Len(manifests) :
                   ParseArchitecture(manifests[j].Platform.Architecture) # a]

\* DefaultPlatform with the OS left out.
DefaultPlatformNoOS(arch) == [present |-> TRUE, Architecture |-> arch, OS |-> ""]

\* The platform New starts from for a requested architecture.
DefaultPlatform(arch) == [present |-> TRUE, Architecture |-> arch, OS |-> "linux"]

\* AppendLayers putting the new layers under the base image's.
PrependLayers(img, layers) == [img EXCEPT !.layers = layers \o img.layers]

\* mutate.AppendLayers(base, layers...)
AppendLayers(img, layers) == [img EXCEPT !.layers = img.layers \o layers]

\* cf.Config.Entrypoint = ...; cf.Config.WorkingDir = "/"; mutate.ConfigFile(img, cf)
RewriteConfig(img) ==
    [img EXCEPT !.config.Entrypoint = <<"/bin/sh", "/entrypoint.sh">>,
                !.config.WorkingDir = "/"]

NoManifest == [Platform |-> NoPlatform, layers |-> <<>>, config |-> EmptyImage.config]

\* The body of the loop over wantArchs for one architecture: the error it
\* returns ("" for none) and the manifest it appends.
ComposeArch(manifests, entrypoints, fsErr, arch) ==
    LET have    == HaveArchs(manifests)
        hasBase == arch \in DOMAIN have
        j       == IF hasBase THEN have[arch] ELSE 0
        baseImg == IF hasBase THEN BaseImage(j, manifests[j]) ELSE EmptyImage
        platform == IF hasBase THEN manifests[j].Platform ELSE DefaultPlatform(arch)
        img     == RewriteConfig(AppendLayers(baseImg, <<CommonLayer, SourceLayer, EntrypointLayer>>))
    IN  IF hasBase /\ ~manifests[j].imageOk THEN [err |-> "base image", manifest |-> NoManifest]
        ELSE IF fsErr = "common" THEN [err |-> "common layer", manifest |-> NoManifest]
        ELSE IF fsErr = "source" THEN [err |-> "source layer", manifest |-> NoManifest]
        ELSE IF arch \notin DOMAIN entrypoints THEN [err |-> "unexpected arch", manifest |-> NoManifest]
        ELSE IF entrypoints[arch] = "nil" THEN [err |-> "render entrypoint", manifest |-> NoManifest]
        ELSE [err |-> "",
              manifest |-> [Platform |-> platform, layers |-> img.layers, config |-> img.config]]

NewIdleRes == [kind |-> "none", err |-> "", idx |-> <<>>]

NewIdle ==
    /\ nBase = [ok |-> FALSE, manifests |-> <<>>]
    /\ nEntry = <<>>
    /\ nFs = "none"
    /\ nTodo = {}
    /\ nIdx = <<>>
    /\ nRes = NewIdleRes
    /\ nPrev = NewIdleRes
    /\ nPc = "idle"

InitNew ==
    /\ nBase \in {[ok |-> FALSE, manifests |-> <<>>]}
                 \cup {[ok |-> TRUE, manifests |-> m] : m \in SeqsUpTo(BaseDescs, MaxBase)}
    /\ nEntry \in EntrypointMaps
    /\ nFs \in {"none", "common", "source"}
    /\ nTodo = {}
    /\ nIdx = <<>>
    /\ nRes = NewIdleRes
    /\ nPrev = NewIdleRes
    /\ nPc = "start"

\* base.IndexManifest() fails.
NewIndexError ==
    /\ nPc = "start"
    /\ ~nBase.ok
    /\ nRes' = [kind |-> "error", err |-> "index manifest", idx |-> <<>>]
    /\ nPc' = "done"
    /\ UNCHANGED <<nBase, nEntry, nFs, nTodo, nIdx, nPrev, pullVars, podVars, gcsVars>>

\* desc.Platform.Architecture of a descriptor without a platform: a nil dereference.
NewPlatformPanic ==
    /\ nPc = "start"
    /\ nBase.ok
    /\ \E i \in 1..Len(nBase.manifests) : ~nBase.manifests[i].Platform.present
    /\ nRes' = [kind |-> "panic", err |-> "nil pointer dereference", idx |-> <<>>]
    /\ nPc' = "done"
    /\ UNCHANGED <<nBase, nEntry, nFs, nTodo, nIdx, nPrev, pullVars, podVars, gcsVars>>

\* wantArchs and haveArchs are built, idx is the empty index.
NewStart ==
    /\ nPc = "start"
    /\ nBase.ok
    /\ \A i \in 1..Len(nBase.manifests) : nBase.manifests[i].Platform.present
    /\ nTodo' = WantArchs(nEntry)
    /\ nIdx' = <<>>
    /\ nPc' = "loop"
    /\ UNCHANGED <<nBase, nEntry, nFs, nRes, nPrev, pullVars, podVars, gcsVars>>

\* One turn of the loop over wantArchs (a Go map: any order) that appends.
NewAppend ==
    /\ nPc = "loop"
    /\ \E arch \in nTodo :
          LET r == ComposeArch(nBase.manifests, nEntry, nFs, arch) IN
          /\ r.err = ""
          /\ nIdx' = Append(nIdx, r.manifest)
          /\ nTodo' = nTodo \ {arch}
    /\ UNCHANGED <<nBase, nEntry, nFs, nRes, nPrev, nPc, pullVars, podVars, gcsVars>>

\* One turn of the loop that returns an error.
NewFail ==
    /\ nPc = "loop"
    /\ \E arch \in nTodo :
          LET r == ComposeArch(nBase.manifests, nEntry, nFs, arch) IN
          /\ r.err # ""
          /\ nRes' = [kind |-> "error", err |-> r.err, idx |-> <<>>]
    /\ nPc' = "done"
    /\ UNCHANGED <<nBase, nEntry, nFs, nTodo, nIdx, nPrev, pullVars, podVars, gcsVars>>

\* return idx, nil
NewReturn ==
    /\ nPc = "loop"
    /\ nTodo = {}
    /\ nRes' = [kind |-> "ok", err |-> "", idx |-> nIdx]
    /\ nPc' = "done"
    /\ UNCHANGED <<nBase, nEntry, nFs, nTodo, nIdx, nPrev, pullVars, podVars, gcsVars>>

NextNew == NewIndexError \/ NewPlatformPanic \/ NewStart \/ NewAppend \/ NewFail \/ NewReturn

\* The caller keeps what New returned and calls it again with the same base
\* index, entrypoints and file trees.
NewAgain ==
    /\ nPc = "done"
    /\ nPrev.kind = "none"
    /\ nPrev' = nRes
    /\ nRes' = NewIdleRes
    /\ nTodo' = {}
    /\ nIdx' = <<>>
    /\ nPc' = "start"
    /\ UNCHANGED <<nBase, nEntry, nFs, pullVars, podVars, gcsVars>>

NextNewTwice == NextNew \/ NewAgain

(***************************************************************************)
(* Pull                                                                    *)
(***************************************************************************)
\* What the first layer of a graph or tasks image gives the code, step by step:
\* idx.Image fails, img.Layers fails, there is no layer, layers[0].Compressed
\* fails, the bytes are not JSON, or the bytes decode.
Outcomes == {"image error", "layers error", "no layers", "compressed error", "bad json", "ok"}

\* The values of the "dev.wolfi.bundle" annotation: the three recognized ones,
\* another one, and "" for a manifest that carries none.
Annotations == {"graph", "tasks", "runtime", "sbom", ""}

PullDescs ==
    {[ann |-> a, outcome |-> o] : a \in {"graph", "tasks"}, o \in Outcomes}
    \cup {[ann |-> a, outcome |-> o] : a \in {"runtime", "sbom", ""}, o \in {"image error", "ok"}}

Repos == {"reg.io/a", "reg.io/b"}

\* desc.Digest of the i-th manifest of the index.
Digest(i) == i

\* The zero name.Digest and the zero Bundles value.
ZeroRef    == [repo |-> "", digest |-> 0]
ZeroBundle == [Graph |-> <<>>, Tasks |-> <<>>, Runtime |-> ZeroRef]

\* The document the first layer of the i-th manifest decodes to.
Decoded(i) == <<i>>

NoErr == [kind |-> "", part |-> "", digest |-> 0]

\* fmt.Errorf("no %s layers in entry %s of bundle %s", part, desc.Digest, pull)
NoLayersError(part, digest) == [kind |-> "no layers", part |-> part, digest |-> digest]

\* return nil, err: the callee's error as it is; Pull adds nothing to it.
PassThrough(cause) == [kind |-> cause, part |-> "", digest |-> 0]

\* ref.Context().Digest(desc.Digest.String())
RuntimeRef(repo, digest) == [repo |-> repo, digest |-> digest]

\* DecodeLayer assigning a fresh Bundles value that holds the document alone.
DecodeLayerFresh(desc, i, bundle, field) ==
    IF desc.outcome = "ok"
    THEN [err |-> NoErr, bundle |-> [ZeroBundle EXCEPT ![field] = Decoded(i)]]
    ELSE [err |-> PassThrough(desc.outcome), bundle |-> bundle]

\* The cases "graph" and "tasks" up to the decoded document; field names the
\* field of bundles the document is assigned to.
DecodeLayer(desc, i, bundle, field) ==
    CASE desc.outcome = "image error"      -> [err |-> PassThrough("image"), bundle |-> bundle]
      [] desc.outcome = "layers error"     -> [err |-> PassThrough("layers"), bundle |-> bundle]
      [] desc.outcome = "no layers"        -> [err |-> NoLayersError(desc.ann, Digest(i)), bundle |-> bundle]
      [] desc.outcome = "compressed error" -> [err |-> PassThrough("compressed"), bundle |-> bundle]
      [] desc.outcome = "bad json"         -> [err |-> PassThrough("json"), bundle |-> bundle]
      [] OTHER -> [err |-> NoErr, bundle |-> [bundle EXCEPT ![field] = Decoded(i)]]

\* The switch on desc.Annotations["dev.wolfi.bundle"] for the i-th manifest.
PullManifest(desc, i, bundle, repo) ==
    CASE desc.ann = "graph"   -> DecodeLayer(desc, i, bundle, "Graph")
      [] desc.ann = "tasks"   -> DecodeLayer(desc, i, bundle, "Tasks")
      [] desc.ann = "runtime" ->
            [err |-> NoErr, bundle |-> [bundle EXCEPT !.Runtime = RuntimeRef(repo, Digest(i))]]
      [] OTHER -> [err |-> NoErr, bundle |-> bundle]

\* PullFailure handing back what was decoded so far beside the error.
PullFailurePartial(err, bundle) == [hasBundle |-> TRUE, bundle |-> bundle, err |-> err]

\* return nil, err
PullFailure(err, bundle) == [hasBundle |-> FALSE, bundle |-> ZeroBundle, err |-> err]

\* return bundles, nil
PullSuccess(bundle) == [hasBundle |-> TRUE, bundle |-> bundle, err |-> NoErr]

PullIdleRes == [hasBundle |-> FALSE, bundle |-> ZeroBundle, err |-> NoErr]

PullIdle ==
    /\ pIn = [fetch |-> "ok", repo |-> "", manifests |-> <<>>]
    /\ pI = 0
    /\ pBundle = ZeroBundle
    /\ pRes = PullIdleRes
    /\ pPc = "idle"

InitPull ==
    /\ pIn \in {[fetch |-> f, repo |-> "", manifests |-> <<>>] :
                    f \in {"bad reference", "no index", "no index manifest"}}
               \cup {[fetch |-> "ok", repo |-> r, manifests |-> m] :
                    r \in Repos, m \in SeqsUpTo(PullDescs, MaxManifests)}
    /\ pI = 0
    /\ pBundle = ZeroBundle
    /\ pRes = PullIdleRes
    /\ pPc = "start"

\* name.ParseReference, remote.Index or idx.IndexManifest fails.
PullFetchError ==
    /\ pPc = "start"
    /\ pIn.fetch # "ok"
    /\ pRes' = PullFailure(PassThrough(pIn.fetch), pBundle)
    /\ pPc' = "done"
    /\ UNCHANGED <<pIn, pI, pBundle, newVars, podVars, gcsVars>>

\* len(im.Manifests) == 0
PullNoManifests ==
    /\ pPc = "start"
    /\ pIn.fetch = "ok"
    /\ Len(pIn.manifests) = 0
    /\ pRes' = PullFailure([kind |-> "no manifests", part |-> "", digest |-> 0], pBundle)
    /\ pPc' = "done"
    /\ UNCHANGED <<pIn, pI, pBundle, newVars, podVars, gcsVars>>

\* bundles := &Bundles{}
PullStart ==
    /\ pPc = "start"
    /\ pIn.fetch = "ok"
    /\ Len(pIn.manifests) > 0
    /\ pBundle' = ZeroBundle
    /\ pI' = 1
    /\ pPc' = "loop"
    /\ UNCHANGED <<pIn, pRes, newVars, podVars, gcsVars>>

\* One turn of the loop over im.Manifests that goes on to the next manifest.
PullStep ==
    /\ pPc = "loop"
    /\ pI <= Len(pIn.manifests)
    /\ LET r == PullManifest(pIn.manifests[pI], pI, pBundle, pIn.repo) IN
          /\ r.err = NoErr
          /\ pBundle' = r.bundle
    /\ pI' = pI + 1
    /\ UNCHANGED <<pIn, pRes, pPc, newVars, podVars, gcsVars>>

\* One turn of the loop that returns an error.
PullStepFail ==
    /\ pPc = "loop"
    /\ pI <= Len(pIn.manifests)
    /\ LET r == PullManifest(pIn.manifests[pI], pI, pBundle, pIn.repo) IN
          /\ r.err # NoErr
          /\ pRes' = PullFailure(r.err, r.bundle)
    /\ pPc' = "done"
    /\ UNCHANGED <<pIn, pI, pBundle, newVars, podVars, gcsVars>>

\* return bundles, nil
PullReturn ==
    /\ pPc = "loop"
    /\ pI > Len(pIn.manifests)
    /\ pRes' = PullSuccess(pBundle)
    /\ pPc' = "done"
    /\ UNCHANGED <<pIn, pI, pBundle, newVars, podVars, gcsVars>>

NextPull ==
    PullFetchError \/ PullNoManifests \/ PullStart \/ PullStep \/ PullStepFail \/ PullReturn

(***************************************************************************)
(* Podspec                                                                 *)
(***************************************************************************)
MaxArmCore == 48

Digits == {"0", "1", "2", "3", "4", "5", "6", "7", "8", "9"}

DigitVal(c) ==
    CASE c = "0" -> 0 [] c = "1" -> 1 [] c = "2" -> 2 [] c = "3" -> 3 [] c = "4" -> 4
      [] c = "5" -> 5 [] c = "6" -> 6 [] c = "7" -> 7 [] c = "8" -> 8 [] c = "9" -> 9

AllDigits(s) == \A i \in 1..Len(s) : s[i] \in Digits

RECURSIVE Mantissa(_)
Mantissa(s) ==
    IF s = <<>> THEN 0 ELSE Mantissa(SubSeq(s, 1, Len(s) - 1)) * 10 + DigitVal(s[Len(s)])

RECURSIVE Pow10(_)
Pow10(n) == IF n = 0 THEN 1 ELSE 10 * Pow10(n - 1)

\* A float64 as far as Podspec tells them apart: a decimal number
\* (-1)^neg * m / 10^d, an infinity, or NaN.
Num(neg, m, d) == [kind |-> "num", neg |-> neg, m |-> m, d |-> d]
Inf(neg)       == [kind |-> "inf", neg |-> neg, m |-> 0, d |-> 0]
NaN            == [kind |-> "nan", neg |-> FALSE, m |-> 0, d |-> 0]

\* strconv.ParseFloat(s, 64) on the decimal forms: an optional sign, then
\* digits with an optional fraction point, or an infinity or NaN by name.
\* (Exponents, hexadecimal forms and upper case are not in CPUChars.)
ParseFloat(s) ==
    LET signed == Len(s) > 0 /\ s[1] \in {"+", "-"}
        neg    == signed /\ s[1] = "-"
        body   == IF signed THEN Tail(s) ELSE s
        c      == Cut(body, ".")
    IN  IF body \in {<<"i", "n", "f">>, <<"i", "n", "f", "i", "n", "i", "t", "y">>}
        THEN [ok |-> TRUE, val |-> Inf(neg)]
        ELSE IF body = <<"n", "a", "n">>
        THEN [ok |-> TRUE, val |-> NaN]
        ELSE IF AllDigits(c.before) /\ AllDigits(c.after) /\ Len(c.before) + Len(c.after) > 0
        THEN [ok |-> TRUE, val |-> Num(neg, Mantissa(c.before \o c.after), Len(c.after))]
        ELSE [ok |-> FALSE, val |-> NaN]

\* cpu > MaxArmCore
ExceedsMaxArmCore(cpu) ==
    CASE cpu.kind = "num" -> ~cpu.neg /\ cpu.m > MaxArmCore * Pow10(cpu.d)
      [] cpu.kind = "inf" -> ~cpu.neg
      [] OTHER -> FALSE

\* ClampCPU without the test of the architecture.
ClampCPUAnyArch(goarch, cpu) ==
    IF ExceedsMaxArmCore(cpu) THEN Num(FALSE, MaxArmCore, 0) ELSE cpu

\* if goarch == "arm64" && cpu > MaxArmCore { cpu = MaxArmCore }
ClampCPU(goarch, cpu) ==
    IF goarch = "arm64" /\ ExceedsMaxArmCore(cpu) THEN Num(FALSE, MaxArmCore, 0) ELSE cpu

\* cpu *= 0.98
Discount(cpu) ==
    IF cpu.kind = "num" THEN Num(cpu.neg, cpu.m * 98, cpu.d + 2) ELSE cpu

\* fmt.Sprintf("%f", cpu): six decimals, the nearest (ties to even); the
\* result keeps its trailing zeros implicit.  "+Inf", "-Inf" and "NaN" for
\* the values that are no numbers.
Sprintf(cpu) ==
    IF cpu.kind # "num" \/ cpu.d <= 6 THEN cpu
    ELSE LET unit == Pow10(cpu.d - 6)
             q    == cpu.m \div unit
             r    == cpu.m % unit
             up   == 2 * r > unit \/ (2 * r = unit /\ q % 2 = 1)
         IN  Num(cpu.neg, IF up THEN q + 1 ELSE q, 6)

\* A resource.Quantity read from a decimal: trailing zeros of the fraction
\* dropped, zero unsigned.
RECURSIVE Canonical(_)
Canonical(q) ==
    IF q.d > 0 /\ q.m % 10 = 0 THEN Canonical(Num(q.neg, q.m \div 10, q.d - 1))
    ELSE Num(q.neg /\ q.m # 0, q.m, q.d)

ZeroCPU == Num(FALSE, 0, 0)

\* resource.ParseQuantity of the text Sprintf produced: "+Inf", "-Inf" and
\* "NaN" are no quantities.
ParseCPUQuantity(text) ==
    IF text.kind = "num" THEN [ok |-> TRUE, q |-> Canonical(text)]
    ELSE [ok |-> FALSE, q |-> ZeroCPU]

QuantitySuffixes ==
    { <<>>, <<"K", "i">>, <<"M", "i">>, <<"G", "i">>, <<"T", "i">>, <<"P", "i">>, <<"E", "i">>,
      <<"n">>, <<"u">>, <<"m">>, <<"k">>, <<"M">>, <<"G">>, <<"T">>, <<"P">>, <<"E">> }

RECURSIVE DigitRun(_)
DigitRun(s) ==
    IF s # <<>> /\ Head(s) \in Digits THEN 1 + DigitRun(Tail(s)) ELSE 0

ZeroMemory == [num |-> 0, suffix |-> <<>>]

\* resource.ParseQuantity of a memory string: whole digits, then a suffix
\* the quantity grammar knows.
ParseMemoryQuantity(s) ==
    LET n      == DigitRun(s)
        suffix == SubSeq(s, n + 1, Len(s))
    IN  IF n > 0 /\ suffix \in QuantitySuffixes
        THEN [ok |-> TRUE, q |-> [num |-> Mantissa(SubSeq(s, 1, n)), suffix |-> suffix]]
        ELSE [ok |-> FALSE, q |-> ZeroMemory]

DefaultCPU    == <<"2">>
DefaultMemory == <<"4", "G", "i">>

\* resources: the defaults, each overridden by a non-empty field of task.Resources.
EffectiveCPU(res)    == IF res.present /\ res.CPU # <<>> THEN res.CPU ELSE DefaultCPU
EffectiveMemory(res) == IF res.present /\ res.Memory # <<>> THEN res.Memory ELSE DefaultMemory

\* MachineFamily overriding only a family the caller gave.
MachineFamilyIfHinted(goarch, mFamily) ==
    IF goarch = "arm64" /\ mFamily # "" THEN "t2a" ELSE mFamily

\* mf: the caller's machine family, "t2a" on arm64.
MachineFamily(goarch, mFamily) == IF goarch = "arm64" THEN "t2a" ELSE mFamily

\* pod.Spec.Affinity: set only for a non-empty mf, with that one value.
Affinity(mf) ==
    IF mf # "" THEN [present |-> TRUE, Values |-> <<mf>>] ELSE [present |-> FALSE, Values |-> <<>>]

\* t: the builder toleration, and the architecture toleration on arm64.
Tolerations(goarch) ==
    <<[Key |-> "chainguard.dev/runner", Value |-> "bundle-builder"]>>
    \o (IF goarch = "arm64" THEN <<[Key |-> "kubernetes.io/arch", Value |-> "arm64"]>> ELSE <<>>)

NoPod ==
    [cpu |-> ZeroCPU, memory |-> ZeroMemory, goarch |-> "",
     affinity |-> [present |-> FALSE, Values |-> <<>>], tolerations |-> <<>>]

PodIdleRes == [kind |-> "none", err |-> "", pod |-> NoPod]

\* Podspec(task, ref, arch, mFamily, sa, ns): a pod, an error, or a panic of
\* resource.MustParse.
Podspec(res, arch, mFamily) ==
    LET goarch == ParseArchitecture(arch)
        parsed == ParseFloat(EffectiveCPU(res))
        text   == Sprintf(Discount(ClampCPU(goarch, parsed.val)))
        cpu    == ParseCPUQuantity(text)
        memory == ParseMemoryQuantity(EffectiveMemory(res))
    IN  IF ~parsed.ok THEN [kind |-> "error", err |-> "parsing cpu", pod |-> NoPod]
        ELSE IF ~cpu.ok THEN [kind |-> "panic", err |-> "MustParse cpu", pod |-> NoPod]
        ELSE IF ~memory.ok THEN [kind |-> "panic", err |-> "MustParse memory", pod |-> NoPod]
        ELSE [kind |-> "pod", err |-> "",
              pod |-> [cpu |-> cpu.q, memory |-> memory.q, goarch |-> goarch,
                       affinity |-> Affinity(MachineFamily(goarch, mFamily)),
                       tolerations |-> Tolerations(goarch)]]

CPUChars == {"9", "6", "4", "8", ".", "-", "i", "n", "f"}

MemoryInputs == {<<>>, <<"8", "G", "i">>, <<"G", "i">>}

PodArchs == {"arm64", "aarch64", "amd64"}

MachineFamilies == {"", "n2"}

NoResources == [present |-> FALSE, CPU |-> <<>>, Memory |-> <<>>]

PodIdle ==
    /\ kIn = [Resources |-> NoResources, arch |-> "", mFamily |-> ""]
    /\ kRes = PodIdleRes
    /\ kPc = "idle"

InitPod ==
    /\ kIn \in {[Resources |-> r, arch |-> a, mFamily |-> f] :
                   r \in {NoResources} \cup
                         {[present |-> TRUE, CPU |-> c, Memory |-> m] :
                             c \in SeqsUpTo(CPUChars, MaxCPULen), m \in MemoryInputs},
                   a \in PodArchs, f \in MachineFamilies}
    /\ kRes = PodIdleRes
    /\ kPc = "start"

PodspecCall ==
    /\ kPc = "start"
    /\ kRes' = Podspec(kIn.Resources, kIn.arch, kIn.mFamily)
    /\ kPc' = "done"
    /\ UNCHANGED <<kIn, newVars, pullVars, gcsVars>>

(***************************************************************************)
(* Specifications: one per operation, and all of them together.            *)
(***************************************************************************)
InitSpecGCS  == InitGCS /\ NewIdle /\ PullIdle /\ PodIdle
InitSpecNew  == InitNew /\ PullIdle /\ PodIdle /\ GcsIdle
InitSpecPull == InitPull /\ NewIdle /\ PodIdle /\ GcsIdle
InitSpecPod  == InitPod /\ NewIdle /\ PullIdle /\ GcsIdle

NextGCS == GcsParse
NextPod == PodspecCall

SpecGCS     == InitSpecGCS /\ [][NextGCS]_vars
SpecNew     == InitSpecNew /\ [][NextNew]_vars
SpecNewTwice == InitSpecNew /\ [][NextNewTwice]_vars
SpecPull    == InitSpecPull /\ [][NextPull]_vars
SpecPodspec == InitSpecPod /\ [][NextPod]_vars

Init == InitSpecGCS \/ InitSpecNew \/ InitSpecPull \/ InitSpecPod

Next == GcsParse \/ NextNew \/ NextPull \/ PodspecCall

Spec == Init /\ [][Next]_vars

(***************************************************************************)
(* Properties of New                                                       *)
(***************************************************************************)
\* The architecture of a platform as the code compares it with the keys.
NormArch(platform) == ParseArchitecture(platform.Architecture)

\* The base index has a manifest of architecture k; LastOf is its last one.
InBase(k) == \E j \in 1..Len(nBase.manifests) : NormArch(nBase.manifests[j].Platform) = k

IsLastOf(j, k) ==
    /\ j \in 1..Len(nBase.manifests)
    /\ NormArch(nBase.manifests[j].Platform) = k
    /\ \A j2 \in (j + 1)..Len(nBase.manifests) : NormArch(nBase.manifests[j2].Platform) # k

FromEmptyImage(m) == Len(m.layers) = 3 /\ m.config.Env = <<>>

C2_Layers ==
    nRes.kind = "ok" =>
        LET idx == nRes.idx IN
        /\ \A i \in 1..Len(idx) :
               LET m == idx[i]
                   n == Len(m.layers)
                   k == NormArch(m.Platform)
               IN  /\ n >= 3
                   /\ m.layers[n - 2].kind = "common"
                   /\ m.layers[n - 1].kind = "source"
                   /\ m.layers[n].kind = "entrypoint"
                   /\ IF InBase(k)
                      THEN \E j \in 1..Len(nBase.manifests) :
                               /\ IsLastOf(j, k)
                               /\ n - 3 = nBase.manifests[j].nlayers
                               /\ \A l \in 1..(n - 3) : m.layers[l] = [kind |-> "base", img |-> j, n |-> l]
                      ELSE n = 3
                   /\ m.config.Entrypoint = <<"/bin/sh", "/entrypoint.sh">>
                   /\ m.config.WorkingDir = "/"
        /\ (nBase.manifests = <<>> /\ Cardinality(DOMAIN nEntry) = 2) =>
               (Len(idx) = 2 /\ \A i \in 1..2 : Len(idx[i].layers) = 3)

\* New returned two images, one on a base image that has a layer and one on
\* the empty image.
C2_Witness ==
    /\ nRes.kind = "ok"
    /\ Len(nRes.idx) = 2
    /\ \E i \in 1..2 : Len(nRes.idx[i].layers) = 4
    /\ \E i \in 1..2 : Len(nRes.idx[i].layers) = 3

\* C8 speaks of a requested architecture that is no key of entrypoints.  The
\* requested architectures are the keys (wantArchs), so the lookup in the loop
\* never misses: New never returns the error of that branch.
NewNeverUnexpectedArch == nRes.err # "unexpected arch"

\* Both of two calls of New with the same arguments returned an index.
BothReturned == nPc = "done" /\ nPrev.kind = "ok" /\ nRes.kind = "ok"

\* C11: two calls of New with the same base index, entrypoints and file
\* trees return indexes that list the same manifests in the same order.
C11_SameOrder == BothReturned => nRes.idx = nPrev.idx

\* What the code does give: the two indexes hold the same manifests (each
\* image is the same in both), whatever their order.
NewSameManifests ==
    BothReturned =>
        /\ Len(nRes.idx) = Len(nPrev.idx)
        /\ {nRes.idx[i] : i \in 1..Len(nRes.idx)} = {nPrev.idx[i] : i \in 1..Len(nPrev.idx)}

(***************************************************************************)
(* Properties of Pull                                                      *)
(***************************************************************************)
\* C4: a turn of the loop changes only the field its manifest's annotation
\* names: graph sets Graph, tasks sets Tasks (each from the first layer),
\* runtime sets Runtime to the input repository at the manifest's digest,
\* anything else changes nothing; a runtime or unrecognized manifest never
\* fails, whatever its image; an index of one tasks manifest gives the tasks,
\* an empty graph and the zero runtime reference.
C4_Frame ==
    [][ /\ (pPc = "loop" /\ pPc' = "loop") =>
               LET d == pIn.manifests[pI] IN
               /\ d.ann = "graph" =>
                      pBundle' = [Graph |-> <<pI>>, Tasks |-> pBundle.Tasks, Runtime |-> pBundle.Runtime]
               /\ d.ann = "tasks" =>
                      pBundle' = [Graph |-> pBundle.Graph, Tasks |-> <<pI>>, Runtime |-> pBundle.Runtime]
               /\ d.ann = "runtime" =>
                      pBundle' = [Graph |-> pBundle.Graph, Tasks |-> pBundle.Tasks,
                                  Runtime |-> [repo |-> pIn.repo, digest |-> pI]]
               /\ d.ann \notin {"graph", "tasks", "runtime"} => pBundle' = pBundle
        /\ (pPc = "loop" /\ pPc' = "done" /\ ~pRes'.hasBundle) =>
               pIn.manifests[pI].ann \in {"graph", "tasks"}
        /\ (pPc = "loop" /\ pPc' = "done" /\ pIn.manifests = <<[ann |-> "tasks", outcome |-> "ok"]>>) =>
               /\ pRes'.hasBundle
               /\ pRes'.bundle = [Graph |-> <<>>, Tasks |-> <<1>>, Runtime |-> [repo |-> "", digest |-> 0]]
      ]_vars

\* Pull returned a bundle whose graph, tasks and runtime were each set by a
\* manifest of the index.
C4_Witness ==
    /\ pPc = "done"
    /\ pRes.hasBundle
    /\ pRes.bundle.Graph # <<>>
    /\ pRes.bundle.Tasks # <<>>
    /\ pRes.bundle.Runtime.repo = pIn.repo
    /\ pRes.bundle.Runtime.digest # 0

\* Pull failed at a graph or tasks manifest.
FailedAt(outcome) ==
    /\ pPc = "done"
    /\ ~pRes.hasBundle
    /\ pI \in 1..Len(pIn.manifests)
    /\ pIn.manifests[pI].ann \in {"graph", "tasks"}
    /\ pIn.manifests[pI].outcome = outcome

\* C5: a failure at a graph or tasks manifest without layers, or whose first
\* layer is not JSON, is an error that names the digest of that manifest,
\* tells the missing layer from the decode failure, and graph from tasks.
C5_DigestIdentified ==
    /\ FailedAt("no layers") =>
           /\ pRes.err.digest = Digest(pI)
           /\ pRes.err.part = pIn.manifests[pI].ann
           /\ pRes.err.kind = "no layers"
    /\ FailedAt("bad json") =>
           /\ pRes.err.digest = Digest(pI)
           /\ pRes.err.part = pIn.manifests[pI].ann
           /\ pRes.err.kind # "no layers"

\* C6: Pull returns either an error and no bundle, or a bundle and no error;
\* an index without manifests is an error; a graph or tasks manifest that
\* fails, at any position, is an error; so a bundle is returned only when
\* the index has manifests and every graph and tasks manifest decoded.
C6_NoPartialBundle ==
    pPc = "done" =>
        /\ pRes.hasBundle <=> pRes.err = NoErr
        /\ ~pRes.hasBundle => pRes.bundle = ZeroBundle
        /\ pIn.fetch # "ok" => ~pRes.hasBundle
        /\ Len(pIn.manifests) = 0 => ~pRes.hasBundle
        /\ (\E i \in 1..Len(pIn.manifests) :
                pIn.manifests[i].ann \in {"graph", "tasks"} /\ pIn.manifests[i].outcome # "ok")
               => ~pRes.hasBundle
        /\ pRes.hasBundle => pRes.bundle = pBundle

\* Pull failed at a later manifest after it had decoded the tasks of the first.
C6_Witness ==
    /\ pPc = "done"
    /\ ~pRes.hasBundle
    /\ pI >= 2
    /\ pBundle.Tasks # <<>>
    /\ pRes.bundle = ZeroBundle
    /\ pRes.err # NoErr

(***************************************************************************)
(* Properties of Podspec                                                   *)
(***************************************************************************)
\* The CPU and memory strings Podspec works from.
CPUText    == IF kIn.Resources.present /\ kIn.Resources.CPU # <<>> THEN kIn.Resources.CPU ELSE <<"2">>
MemoryText ==
    IF kIn.Resources.present /\ kIn.Resources.Memory # <<>>
    THEN kIn.Resources.Memory ELSE <<"4", "G", "i">>

IsArm == kIn.arch \in {"arm64", "aarch64"}

C7_Original ==
    (kPc = "done" /\ kRes.kind = "pod") =>
        LET a == kRes.pod.affinity IN
        /\ a.present => kIn.mFamily # ""
        /\ a.present => a.Values = <<IF IsArm THEN "t2a" ELSE kIn.mFamily>>
        /\ kIn.mFamily = "" => ~a.present

\* C7, amended: on arm64 a returned pod always has the machine-family
\* affinity, on the one value "t2a", also when the hint is empty; on every
\* other architecture it has it exactly when the hint is not empty, on the
\* one value that is the hint.
C7_Affinity ==
    (kPc = "done" /\ kRes.kind = "pod") =>
        LET a == kRes.pod.affinity IN
        IF IsArm
        THEN a.present /\ a.Values = <<"t2a">>
        ELSE /\ a.present <=> kIn.mFamily # ""
             /\ a.present => a.Values = <<kIn.mFamily>>

\* Podspec returned a pod for arm64 and an empty hint: it has the affinity.
C7_Witness ==
    /\ kPc = "done"
    /\ kRes.kind = "pod"
    /\ kIn.arch = "arm64"
    /\ kIn.mFamily = ""
    /\ kRes.pod.affinity.present

\* C10: Podspec ends with a pod or with an error, never otherwise, and a CPU
\* override that does not parse, or parses to a negative or non-finite number,
\* and a memory override that is no quantity, each end with an error.
C10_PodOrError ==
    kPc = "done" =>
        LET p == ParseFloat(CPUText) IN
        /\ kRes.kind \in {"pod", "error"}
        /\ ~p.ok => kRes.kind = "error"
        /\ (p.ok /\ p.val.kind # "num") => kRes.kind = "error"
        /\ (p.ok /\ p.val.kind = "num" /\ p.val.neg /\ p.val.m # 0) => kRes.kind = "error"
        /\ ~ParseMemoryQuantity(MemoryText).ok => kRes.kind = "error"

(***************************************************************************)
(* Properties of ParseGCSFuseMount                                         *)
(***************************************************************************)
HasChar(s, c) == \E i \in 1..Len(s) : s[i] = c

\* C9: ParseGCSFuseMount fails, with the format error, exactly when s has no
\* ":"; otherwise Mount is what follows the first ":", and the part before
\* it is Bucket, or Bucket "/" OnlyDir split at its first "/": "b/d:/m" gives
\* {b, d, /m} and "b:/m" gives {b, "", /m}.
C9_Parse ==
    gPc = "done" =>
        LET m == gRes.mount IN
        /\ gRes.ok <=> HasChar(gIn, ":")
        /\ ~gRes.ok => gRes.err = "format"
        /\ gRes.ok =>
               \E i \in 1..Len(gIn) :
                   LET before == SubSeq(gIn, 1, i - 1) IN
                   /\ gIn[i] = ":"
                   /\ ~HasChar(before, ":")
                   /\ m.Mount = SubSeq(gIn, i + 1, Len(gIn))
                   /\ ~HasChar(m.Bucket, "/")
                   /\ IF HasChar(before, "/")
                      THEN before = m.Bucket \o <<"/">> \o m.OnlyDir
                      ELSE before = m.Bucket /\ m.OnlyDir = <<>>
        /\ gIn = <<"b", "/", "d", ":", "/", "m">> =>
               m = [Bucket |-> <<"b">>, OnlyDir |-> <<"d">>, Mount |-> <<"/", "m">>]
        /\ gIn = <<"b", ":", "/", "m">> =>
               m = [Bucket |-> <<"b">>, OnlyDir |-> <<>>, Mount |-> <<"/", "m">>]

\* ParseGCSFuseMount parsed a spec with a sub-directory and a second ":".
C9_Witness ==
    /\ gPc = "done"
    /\ gRes.ok
    /\ gIn = <<"b", "/", "d", ":", "m", ":">>
    /\ gRes.mount.Mount = <<"m", ":">>

====
